---- MODULE Spec2Model ----
(***************************************************************************)
(* Model of the ImageFont class of src/index.ts: the glyph resolver        *)
(* (measureCharacterWidth, measureCharacterHeight), measureText and        *)
(* drawText; and of the ImageFont class listed in src/README.md, whose     *)
(* drawText also recolors the glyphs through a color cache; and of          *)
(* imageFontContentProcessor of src/index.ts with its type guards.         *)
(*                                                                         *)
(* Representation of JavaScript values:                                    *)
(*   - an optional value is a sequence of length at most one: <<>> is      *)
(*     undefined (or an absent property), <<v>> is the value v;            *)
(*   - a Record<string, T> is a function whose domain is the set of keys   *)
(*     that are present;                                                   *)
(*   - numbers are integers; the only division of the code is "/ 2" in     *)
(*     drawText, so every coordinate computed by drawText is kept in       *)
(*     half-pixels (Px converts a pixel quantity), which is exact;         *)
(*   - Math.max of no arguments is -Infinity, so the height returned by    *)
(*     measureText and the vertical origin of drawText are extended        *)
(*     numbers [inf, val]: inf = 0 for the finite number val, -1 for       *)
(*     -Infinity, 1 for +Infinity;                                         *)
(*   - a value of unknown type (parsed JSON, the content of an entry of    *)
(*     the content manager) is a record tagged by t: "undefined", "null",  *)
(*     "number" (with num), "string" (with str), "object" (with props, a   *)
(*     function from the keys present to values), "image" and "font".      *)
(***************************************************************************)
EXTENDS Integers, Sequences, FiniteSets, TLC

VARIABLES
    textures,   \* this.textures: character -> tile [width, height]
    config,     \* this.config, as merged by the constructor
    op,         \* the last operation called ("new" after construction)
    character,  \* argument of measureCharacterWidth / measureCharacterHeight
    text,       \* argument of measureText / drawText
    options,    \* argument: the rendering options
    x,          \* argument of drawText
    y,          \* argument of drawText
    result,     \* return value of measureCharacterWidth / measureCharacterHeight
    size,       \* return value of measureText (also the local of drawText)
    originX,    \* drawText: currentX when the loop starts (half-pixels)
    actualY,    \* drawText: local actualY (half-pixels, extended number)
    draws,      \* drawText: the context.drawImage calls, in call order
    currentX,   \* drawText: local currentX when the loop ends (half-pixels)
    colorCache, \* this.colorCache: the entries [key, value] in insertion order
    glyphs,     \* drawText: what the loop did for each character of the text
    content,    \* imageFontContentProcessor: the content map, name -> entry
    data,       \* imageFontContentProcessor: argument, the entry to process
    imageName,  \* imageFontContentProcessor: argument
    thrown,     \* imageFontContentProcessor: the message of the Error thrown
    font,       \* imageFontContentProcessor: the ImageFont it constructed
    guarded,    \* isImageFontConfigData: argument, a value of unknown type
    verdict     \* isImageFontConfigData: return value

\* The state of the content processor and of its type guard
loader == <<content, data, imageName, thrown, font, guarded, verdict>>

vars == <<textures, config, op, character, text, options, x, y, result, size,
          originX, actualY, draws, currentX, colorCache, glyphs, loader>>

-----------------------------------------------------------------------------
(* Bounds *)

MaxLen == 2       \* longest text
MaxScale == 2     \* largest scale factor (options.scale and config.scale)
MaxKerning == 2   \* largest options.kerning

\* The capacity of the color cache.  ImageFont.MAX_COLOR_CACHE_SIZE is 1000
\* (src/README.md:502); the model takes a small capacity, so that the cache
\* fills and evicts between a few calls.
MAX_COLOR_CACHE_SIZE == 3

-----------------------------------------------------------------------------
(* JavaScript values *)

Undefined == <<>>

Some(v) == <<v>>

\* a ?? d
Coalesce(a, d) == IF a # Undefined THEN a[1] ELSE d

\* o?.f where f is an optional property: undefined when o is undefined
Field(o, f) == IF o # Undefined THEN o[1][f] ELSE Undefined

\* o?.f where f is a property that every such object has
Member(o, f) == IF o # Undefined THEN Some(o[1][f]) ELSE Undefined

\* obj[key] for a Record: undefined when the key is absent
Lookup(obj, key) == IF key \in DOMAIN obj THEN Some(obj[key]) ELSE Undefined

\* vec2(): the zero vector; vec2(a, b)
vec2(a, b) == [x |-> a, y |-> b]

vec2Add(a, b) == [x |-> a.x + b.x, y |-> a.y + b.y]

\* Extended numbers (finite, -Infinity, +Infinity)
Fin(n) == [inf |-> 0, val |-> n]

NegInfinity == [inf |-> -1, val |-> 0]

PosInfinity == [inf |-> 1, val |-> 0]

Max2(a, b) == IF a >= b THEN a ELSE b

RECURSIVE MaxOfSeq(_)
MaxOfSeq(s) ==
    IF Len(s) = 1 THEN s[1] ELSE Max2(s[1], MaxOfSeq(Tail(s)))

RECURSIVE SumOfSeq(_)
SumOfSeq(s) == IF s = <<>> THEN 0 ELSE s[1] + SumOfSeq(Tail(s))

\* Mutant of MathMax: the values are summed
MathMaxSummed(s) == IF s = <<>> THEN NegInfinity ELSE Fin(SumOfSeq(s))

\* Math.max(...s): -Infinity when s is empty
MathMax(s) == IF s = <<>> THEN NegInfinity ELSE Fin(MaxOfSeq(s))

\* A pixel quantity in half-pixels
Px(n) == 2 * n

\* text[i] with a 0-based index: undefined when out of range.  The value
\* undefined used as a property key is the key "undefined", which is no key
\* of a Record whose keys are single characters.
NoCharacter == "undefined"

CharAt(t, i) == IF i >= 0 /\ i < Len(t) THEN t[i + 1] ELSE NoCharacter

-----------------------------------------------------------------------------
(* ImageFont *)

DEFAULT_CONFIG ==
    [offset |-> Some(vec2(0, 0)),
     scale |-> Some(1),
     defaultCharacterConfig |-> [offset |-> Some(vec2(0, 0)),
                                 width |-> Undefined,
                                 height |-> Undefined],
     characters |-> <<>>]

\* { ...a, ...b } for one property: b's value when b has the property
Spread(a, b) == IF b # Undefined THEN b ELSE a

\* constructor(textures, config): the merged this.config.  cfg is the
\* caller's ImageFontConfig; an omitted property is Undefined.
ImageFontConfigOf(cfg) ==
    [offset |-> Spread(DEFAULT_CONFIG.offset, cfg.offset),
     scale |-> Spread(DEFAULT_CONFIG.scale, cfg.scale),
     defaultCharacterConfig |->
        [offset |-> Spread(DEFAULT_CONFIG.defaultCharacterConfig.offset,
                           Field(cfg.defaultCharacterConfig, "offset")),
         width |-> Spread(DEFAULT_CONFIG.defaultCharacterConfig.width,
                          Field(cfg.defaultCharacterConfig, "width")),
         height |-> Spread(DEFAULT_CONFIG.defaultCharacterConfig.height,
                           Field(cfg.defaultCharacterConfig, "height"))],
     characters |-> cfg.characters]

\* Mutant of ActualScale: the scale of the options is left out
ActualScaleOfConfig(cfg, opts) == Coalesce(cfg.scale, 1)

\* const actualScale = (options?.scale ?? 1) * (this.config.scale ?? 1)
ActualScale(cfg, opts) == Coalesce(opts.scale, 1) * Coalesce(cfg.scale, 1)

\* a || d: a falsy number (0) falls through like undefined
Falsy(a, d) == IF a # Undefined /\ a[1] # 0 THEN a[1] ELSE d

\* Mutant of measureCharacterWidth: the chain is written with || for ??
measureCharacterWidthFalsy(tex, cfg, ch, opts) ==
    LET characterConfig == Lookup(cfg.characters, ch)
        actualScale == ActualScale(cfg, opts)
        texture == Lookup(tex, ch)
        width ==
            IF Coalesce(opts.monospace, FALSE)
            THEN IF opts.kerning # Undefined
                 THEN opts.kerning[1]
                 ELSE Falsy(cfg.defaultCharacterConfig.width,
                        Falsy(Member(texture, "width"), 0))
            ELSE Falsy(Field(characterConfig, "width"),
                   Falsy(cfg.defaultCharacterConfig.width,
                     Falsy(Member(texture, "width"), 0)))
                 * Coalesce(opts.kerning, 1)
    IN  width * actualScale

\* Mutant of measureCharacterWidth: without a kerning, the monospace branch
\* starts its chain at the character's own width
measureCharacterWidthOwnFirst(tex, cfg, ch, opts) ==
    LET characterConfig == Lookup(cfg.characters, ch)
        actualScale == ActualScale(cfg, opts)
        texture == Lookup(tex, ch)
        chain == Coalesce(Field(characterConfig, "width"),
                   Coalesce(cfg.defaultCharacterConfig.width,
                     Coalesce(Member(texture, "width"), 0)))
        width ==
            IF Coalesce(opts.monospace, FALSE)
            THEN IF opts.kerning # Undefined THEN opts.kerning[1] ELSE chain
            ELSE chain * Coalesce(opts.kerning, 1)
    IN  width * actualScale

\* Mutant of measureCharacterWidth: the monospace kerning is returned as it
\* is, without the scale
measureCharacterWidthUnscaledKerning(tex, cfg, ch, opts) ==
    LET characterConfig == Lookup(cfg.characters, ch)
        actualScale == ActualScale(cfg, opts)
        texture == Lookup(tex, ch)
    IN  IF Coalesce(opts.monospace, FALSE)
        THEN IF opts.kerning # Undefined
             THEN opts.kerning[1]
             ELSE Coalesce(cfg.defaultCharacterConfig.width,
                    Coalesce(Member(texture, "width"), 0)) * actualScale
        ELSE Coalesce(Field(characterConfig, "width"),
               Coalesce(cfg.defaultCharacterConfig.width,
                 Coalesce(Member(texture, "width"), 0)))
             * Coalesce(opts.kerning, 1) * actualScale

\* Mutant of measureCharacterWidth: an omitted kerning counts as 0
measureCharacterWidthKerningZero(tex, cfg, ch, opts) ==
    LET characterConfig == Lookup(cfg.characters, ch)
        actualScale == ActualScale(cfg, opts)
        texture == Lookup(tex, ch)
        width ==
            IF Coalesce(opts.monospace, FALSE)
            THEN IF opts.kerning # Undefined
                 THEN opts.kerning[1]
                 ELSE Coalesce(cfg.defaultCharacterConfig.width,
                        Coalesce(Member(texture, "width"), 0))
            ELSE Coalesce(Field(characterConfig, "width"),
                   Coalesce(cfg.defaultCharacterConfig.width,
                     Coalesce(Member(texture, "width"), 0)))
                 * Coalesce(opts.kerning, 0)
    IN  width * actualScale

\* measureCharacterWidth(character, options)
measureCharacterWidth(tex, cfg, ch, opts) ==
    LET characterConfig == Lookup(cfg.characters, ch)
        actualScale == ActualScale(cfg, opts)
        texture == Lookup(tex, ch)
        width ==
            IF Coalesce(opts.monospace, FALSE)
            THEN IF opts.kerning # Undefined
                 THEN opts.kerning[1]
                 ELSE Coalesce(cfg.defaultCharacterConfig.width,
                        Coalesce(Member(texture, "width"), 0))
            ELSE Coalesce(Field(characterConfig, "width"),
                   Coalesce(cfg.defaultCharacterConfig.width,
                     Coalesce(Member(texture, "width"), 0)))
                 * Coalesce(opts.kerning, 1)
    IN  width * actualScale

\* Mutant of measureCharacterHeight: the chain ends at the tile's height
measureCharacterHeightOfTile(tex, cfg, ch, opts) ==
    LET characterConfig == Lookup(cfg.characters, ch)
        actualScale == ActualScale(cfg, opts)
        texture == Lookup(tex, ch)
    IN  Coalesce(Field(characterConfig, "height"),
          Coalesce(cfg.defaultCharacterConfig.height,
            Coalesce(Member(texture, "height"), 0))) * actualScale

\* measureCharacterHeight(character, options)
measureCharacterHeight(tex, cfg, ch, opts) ==
    LET characterConfig == Lookup(cfg.characters, ch)
        actualScale == ActualScale(cfg, opts)
    IN  Coalesce(Field(characterConfig, "height"),
          Coalesce(cfg.defaultCharacterConfig.height, 0)) * actualScale

\* Mutant of ScaleOnly: the caller's options are passed on as they are
ScaleOnlyKeepingAll(opts) == opts

\* The options object { scale: options?.scale } built by measureText
ScaleOnly(opts) ==
    [scale |-> opts.scale, monospace |-> Undefined, kerning |-> Undefined,
     align |-> Undefined, baseLine |-> Undefined]

\* text.split('').slice(0, text.length - 1).reduce(... + width, 0)
RECURSIVE SumWidths(_, _, _, _, _)
SumWidths(tex, cfg, t, n, opts) ==
    IF n <= 0 THEN 0
    ELSE SumWidths(tex, cfg, t, n - 1, opts)
         + measureCharacterWidth(tex, cfg, t[n], opts)

\* measureText(text, options)
measureText(tex, cfg, t, opts) ==
    LET lastCharacterWidth ==
            measureCharacterWidth(tex, cfg, CharAt(t, Len(t) - 1),
                                  ScaleOnly(opts))
        width == SumWidths(tex, cfg, t, Len(t) - 1, opts) + lastCharacterWidth
        height ==
            MathMax([i \in 1..Len(t) |->
                        measureCharacterHeight(tex, cfg, t[i], opts)])
    IN  [x |-> width, y |-> height]

\* a - n for an extended number a and a finite n
ExtMinus(a, n) == IF a.inf = 0 THEN Fin(a.val - n) ELSE a

\* Mutant of AlignX: 'right' moves by half the width
AlignXRightHalf(px, sz, opts) ==
    IF opts.align = Some("center") THEN Px(px) - sz.x
    ELSE IF opts.align = Some("right") THEN Px(px) - sz.x
    ELSE Px(px)

\* Mutant of AlignX: 'center' moves by the whole width
AlignXCenterWhole(px, sz, opts) ==
    IF opts.align = Some("center") THEN Px(px) - Px(sz.x)
    ELSE IF opts.align = Some("right") THEN Px(px) - Px(sz.x)
    ELSE Px(px)

\* The horizontal origin of drawText: switch (options?.align)
AlignX(px, sz, opts) ==
    IF opts.align = Some("center") THEN Px(px) - sz.x
    ELSE IF opts.align = Some("right") THEN Px(px) - Px(sz.x)
    ELSE Px(px)

\* The vertical origin of drawText: switch (options?.baseLine)
BaseLineY(py, sz, opts) ==
    IF opts.baseLine = Some("middle")
    THEN IF sz.y.inf = 0 THEN Fin(Px(py) - sz.y.val)
         ELSE IF sz.y.inf < 0 THEN PosInfinity ELSE NegInfinity
    ELSE IF opts.baseLine = Some("bottom")
    THEN IF sz.y.inf = 0 THEN Fin(Px(py) - Px(sz.y.val))
         ELSE IF sz.y.inf < 0 THEN PosInfinity ELSE NegInfinity
    ELSE Fin(Px(py))

\* The offset of a glyph: vec2.add(this.config.offset ?? vec2(), ...)
GlyphOffset(cfg, ch) ==
    LET characterConfig == Lookup(cfg.characters, ch)
    IN  vec2Add(Coalesce(cfg.offset, vec2(0, 0)),
                Coalesce(Field(characterConfig, "offset"),
                  Coalesce(cfg.defaultCharacterConfig.offset, vec2(0, 0))))

\* Mutant of DrawImage: the offset is not scaled
DrawImageUnscaledOffset(tex, cfg, ch, cx, ay, opts) ==
    LET actualScale == ActualScale(cfg, opts)
        texture == tex[ch]
        offset == GlyphOffset(cfg, ch)
    IN  [texture |-> ch,
         dx |-> cx - Px(offset.x),
         dy |-> ExtMinus(ay, Px(offset.y)),
         dw |-> Px(texture.width * actualScale),
         dh |-> Px(texture.height * actualScale)]

\* context.drawImage(texture, dx, dy, dw, dh) for the glyph of ch at cursor cx
DrawImage(tex, cfg, ch, cx, ay, opts) ==
    LET actualScale == ActualScale(cfg, opts)
        texture == tex[ch]
        offset == GlyphOffset(cfg, ch)
    IN  [texture |-> ch,
         dx |-> cx - Px(offset.x * actualScale),
         dy |-> ExtMinus(ay, Px(offset.y * actualScale)),
         dw |-> Px(texture.width * actualScale),
         dh |-> Px(texture.height * actualScale)]

\* for (const character of text) { ... } from the i-th character (1-based)
\* on, with cursor cx and the draw calls made so far
RECURSIVE DrawLoop(_, _, _, _, _, _, _, _)
DrawLoop(tex, cfg, t, opts, ay, i, cx, calls) ==
    IF i > Len(t) THEN [draws |-> calls, currentX |-> cx]
    ELSE LET characterWidth == measureCharacterWidth(tex, cfg, t[i], opts)
         IN  IF Lookup(tex, t[i]) = Undefined
             THEN DrawLoop(tex, cfg, t, opts, ay, i + 1,
                           cx + Px(characterWidth), calls)
             ELSE DrawLoop(tex, cfg, t, opts, ay, i + 1,
                           cx + Px(characterWidth),
                           Append(calls,
                                  DrawImage(tex, cfg, t[i], cx, ay, opts)))

-----------------------------------------------------------------------------
(* ImageFont of src/README.md: drawText with the color cache.  A canvas is   *)
(* [tile, width, height, paint]: the atlas tile it was made from, its size,  *)
(* and how it was painted (undefined for the tile as it is in the atlas).    *)

\* this.textures[character], a canvas
TileCanvas(tex, ch) ==
    [tile |-> ch, width |-> tex[ch].width, height |-> tex[ch].height,
     paint |-> Undefined]

\* A cache key of the color and the mode alone
getCacheKeyOfColor(ch, color, mode) == color \o ":" \o mode

\* getCacheKey(character, color, mode)
getCacheKey(ch, color, mode) == ch \o ":" \o color \o ":" \o mode

\* The coloring mode as given, 'multiply' when there is none
getColoringModeAsGiven(opts) == Coalesce(opts.coloringMode, "multiply")

\* getColoringMode(options)
getColoringMode(opts) ==
    LET mode == Coalesce(opts.coloringMode, "multiply")
    IN  IF mode = "custom" /\ opts.coloringFunction = Undefined
        THEN "multiply"
        ELSE mode

\* createColoredTexture(texture, color, mode, coloringFunction): a canvas of
\* the size of the texture; 'multiply', 'hue' and 'overlay' paint it with the
\* color, 'custom' lets the coloring function paint it, if there is one
createColoredTexture(texture, color, mode, coloringFunction) ==
    [tile |-> texture.tile, width |-> texture.width,
     height |-> texture.height,
     paint |-> Some([mode |-> mode, color |-> color,
                     by |-> IF mode = "custom" THEN coloringFunction
                            ELSE Undefined])]

\* The keys of a Map, in insertion order
CacheKeys(cache) == [i \in 1..Len(cache) |-> cache[i].key]

\* Map.has(key)
CacheHas(cache, key) == \E i \in 1..Len(cache) : cache[i].key = key

\* Map.get(key) of a key the Map has
CacheGet(cache, key) ==
    cache[CHOOSE i \in 1..Len(cache) : cache[i].key = key].value

\* Map.set(key, value): a new key is added last, a key of the Map keeps its
\* place
CacheSet(cache, key, value) ==
    IF CacheHas(cache, key)
    THEN [i \in 1..Len(cache) |->
            IF cache[i].key = key THEN [key |-> key, value |-> value]
            ELSE cache[i]]
    ELSE Append(cache, [key |-> key, value |-> value])

\* Map.delete(key)
CacheDelete(cache, key) == SelectSeq(cache, LAMBDA e : e.key # key)

\* An insertion that makes room only once the cache is over its maximum
CacheInsertOverMaximum(cache, key, value) ==
    LET managed ==
            IF Len(cache) > MAX_COLOR_CACHE_SIZE
            THEN CacheDelete(cache, cache[1].key)
            ELSE cache
    IN  CacheSet(managed, key, value)

\* An insertion that makes room by deleting the entry added last
CacheInsertEvictNewest(cache, key, value) ==
    LET managed ==
            IF Len(cache) >= MAX_COLOR_CACHE_SIZE
            THEN SubSeq(cache, 1, Len(cache) - 1)
            ELSE cache
    IN  CacheSet(managed, key, value)

\* "Manage cache size" and this.colorCache.set(cacheKey, finalTexture)
CacheInsert(cache, key, value) ==
    LET managed ==
            IF Len(cache) >= MAX_COLOR_CACHE_SIZE
            THEN IF cache # <<>>
                 THEN CacheDelete(cache, cache[1].key)
                 ELSE cache
            ELSE cache
    IN  CacheSet(managed, key, value)

\* if (options?.color): the color is defined and not the empty string
HasColor(opts) == opts.color # Undefined /\ opts.color[1] # ""

\* A coloring that never looks in the cache
ColorGlyphUncached(cache, texture, ch, opts) ==
    IF HasColor(opts)
    THEN LET coloringMode == getColoringMode(opts)
             cacheKey == getCacheKey(ch, opts.color[1], coloringMode)
             made == createColoredTexture(texture, opts.color[1],
                         coloringMode, opts.coloringFunction)
         IN  [finalTexture |-> made,
              colorCache |-> CacheInsert(CacheDelete(cache, cacheKey),
                                         cacheKey, made),
              cacheKey |-> Some(cacheKey),
              created |-> TRUE]
    ELSE [finalTexture |-> texture,
          colorCache |-> cache,
          cacheKey |-> Undefined,
          created |-> FALSE]

\* "Apply coloring if color is provided": the final texture of a glyph, the
\* cache afterwards, the cache key if one was built, and whether
\* createColoredTexture was called
ColorGlyph(cache, texture, ch, opts) ==
    IF HasColor(opts)
    THEN LET coloringMode == getColoringMode(opts)
             cacheKey == getCacheKey(ch, opts.color[1], coloringMode)
         IN  IF CacheHas(cache, cacheKey)
             THEN [finalTexture |-> CacheGet(cache, cacheKey),
                   colorCache |-> cache,
                   cacheKey |-> Some(cacheKey),
                   created |-> FALSE]
             ELSE LET made == createColoredTexture(texture, opts.color[1],
                                  coloringMode, opts.coloringFunction)
                  IN  [finalTexture |-> made,
                       colorCache |-> CacheInsert(cache, cacheKey, made),
                       cacheKey |-> Some(cacheKey),
                       created |-> TRUE]
    ELSE [finalTexture |-> texture,
          colorCache |-> cache,
          cacheKey |-> Undefined,
          created |-> FALSE]

\* context.drawImage(finalTexture, dx, dy, dw, dh) at cursor cx
DrawFinalTexture(cfg, ch, finalTexture, cx, ay, opts) ==
    LET actualScale == ActualScale(cfg, opts)
        offset == GlyphOffset(cfg, ch)
    IN  [texture |-> finalTexture,
         dx |-> cx - Px(offset.x * actualScale),
         dy |-> ExtMinus(ay, Px(offset.y * actualScale)),
         dw |-> Px(finalTexture.width * actualScale),
         dh |-> Px(finalTexture.height * actualScale)]

\* A skipped glyph that leaves the cursor where it is
SkipGlyphInPlace(cx, characterWidth) == cx

\* if (!texture) { currentX += characterWidth; continue; }: the cursor after
\* a character without a tile
SkipGlyph(cx, characterWidth) == cx + Px(characterWidth)

\* What one iteration of the loop did: the character and the cursor it was
\* met at, whether it was drawn, the cache key built for it, whether the
\* key was in the cache, whether createColoredTexture was called, and the
\* keys of the cache before and after
GlyphRecord(ch, cx, drawn, colored, before, after) ==
    [character |-> ch, cursor |-> cx, drawn |-> drawn,
     cacheKey |-> colored.cacheKey,
     hit |-> colored.cacheKey # Undefined
             /\ CacheHas(before, colored.cacheKey[1]),
     created |-> colored.created,
     before |-> CacheKeys(before), after |-> CacheKeys(after)]

NotColored == [cacheKey |-> Undefined, created |-> FALSE]

\* for (const character of text) { ... } of the README, from the i-th
\* character (1-based) on
RECURSIVE DrawLoopColored(_, _, _, _, _, _, _, _, _, _)
DrawLoopColored(tex, cfg, t, opts, ay, i, cx, calls, cache, trace) ==
    IF i > Len(t)
    THEN [draws |-> calls, currentX |-> cx, colorCache |-> cache,
          glyphs |-> trace]
    ELSE LET characterWidth == measureCharacterWidth(tex, cfg, t[i], opts)
         IN  IF Lookup(tex, t[i]) = Undefined
             THEN DrawLoopColored(tex, cfg, t, opts, ay, i + 1,
                      SkipGlyph(cx, characterWidth), calls, cache,
                      Append(trace, GlyphRecord(t[i], cx, FALSE, NotColored,
                                                cache, cache)))
             ELSE LET colored == ColorGlyph(cache, TileCanvas(tex, t[i]),
                                            t[i], opts)
                  IN  DrawLoopColored(tex, cfg, t, opts, ay, i + 1,
                          cx + Px(characterWidth),
                          Append(calls,
                                 DrawFinalTexture(cfg, t[i],
                                     colored.finalTexture, cx, ay, opts)),
                          colored.colorCache,
                          Append(trace,
                                 GlyphRecord(t[i], cx, TRUE, colored, cache,
                                             colored.colorCache)))

-----------------------------------------------------------------------------
(* Values of unknown type, and the type guards *)

JSUndefined == [t |-> "undefined"]

JSNull == [t |-> "null"]

JSNumber(n) == [t |-> "number", num |-> n]

JSString(str) == [t |-> "string", str |-> str]

\* An object with the given properties
JSObject(props) == [t |-> "object", props |-> props]

\* {}
NoProperties == [k \in {} |-> JSNull]

\* typeof value
TypeOf(value) ==
    IF value.t \in {"null", "image", "font"} THEN "object" ELSE value.t

\* !value
Not(value) ==
    \/ value.t \in {"undefined", "null"}
    \/ value = JSNumber(0)
    \/ value = JSString("")

\* key in value, for an object
In(key, value) == key \in DOMAIN value.props

\* A type guard of character configurations that never asks for a
\* textureAtlasPosition and takes any height
isCharacterConfigDataLoosely(value, includeTextureAtlasPosition) ==
    IF TypeOf(value) # "object" \/ value = JSNull THEN FALSE
    ELSE IF /\ In("offset", value)
            /\ \/ TypeOf(value.props.offset) # "object"
               \/ value.props.offset = JSNull
               \/ ~In("x", value.props.offset)
               \/ TypeOf(value.props.offset.props.x) # "number"
               \/ ~In("y", value.props.offset)
               \/ TypeOf(value.props.offset.props.y) # "number"
    THEN FALSE
    ELSE IF In("width", value) /\ TypeOf(value.props.width) # "number"
    THEN FALSE
    ELSE TRUE

\* isImageFontCharacterConfigData(value, includeTextureAtlasPosition)
isImageFontCharacterConfigData(value, includeTextureAtlasPosition) ==
    IF TypeOf(value) # "object" \/ value = JSNull THEN FALSE
    ELSE IF /\ includeTextureAtlasPosition
            /\ \/ ~In("textureAtlasPosition", value)
               \/ TypeOf(value.props.textureAtlasPosition) # "object"
               \/ value.props.textureAtlasPosition = JSNull
    THEN FALSE
    ELSE IF /\ includeTextureAtlasPosition
            /\ \/ ~In("x", value.props.textureAtlasPosition)
               \/ TypeOf(value.props.textureAtlasPosition.props.x) # "number"
    THEN FALSE
    ELSE IF /\ includeTextureAtlasPosition
            /\ \/ ~In("y", value.props.textureAtlasPosition)
               \/ TypeOf(value.props.textureAtlasPosition.props.y) # "number"
    THEN FALSE
    ELSE IF /\ In("offset", value)
            /\ \/ TypeOf(value.props.offset) # "object"
               \/ value.props.offset = JSNull
               \/ ~In("x", value.props.offset)
               \/ TypeOf(value.props.offset.props.x) # "number"
               \/ ~In("y", value.props.offset)
               \/ TypeOf(value.props.offset.props.y) # "number"
    THEN FALSE
    ELSE IF In("width", value) /\ TypeOf(value.props.width) # "number"
    THEN FALSE
    ELSE IF In("height", value) /\ TypeOf(value.props.height) # "number"
    THEN FALSE
    ELSE TRUE

\* isImageFontConfigData(value)
isImageFontConfigData(value) ==
    IF TypeOf(value) # "object" \/ value = JSNull THEN FALSE
    ELSE IF \/ ~In("textureAtlasSize", value)
            \/ TypeOf(value.props.textureAtlasSize) # "object"
            \/ value.props.textureAtlasSize = JSNull
    THEN FALSE
    ELSE IF \/ ~In("x", value.props.textureAtlasSize)
            \/ TypeOf(value.props.textureAtlasSize.props.x) # "number"
    THEN FALSE
    ELSE IF \/ ~In("y", value.props.textureAtlasSize)
            \/ TypeOf(value.props.textureAtlasSize.props.y) # "number"
    THEN FALSE
    ELSE IF /\ In("offset", value)
            /\ \/ TypeOf(value.props.offset) # "object"
               \/ value.props.offset = JSNull
               \/ ~In("x", value.props.offset)
               \/ TypeOf(value.props.offset.props.x) # "number"
               \/ ~In("y", value.props.offset)
               \/ TypeOf(value.props.offset.props.y) # "number"
    THEN FALSE
    ELSE IF In("scale", value) /\ TypeOf(value.props.scale) # "number"
    THEN FALSE
    ELSE IF /\ In("defaultCharacterConfig", value)
            /\ \/ TypeOf(value.props.defaultCharacterConfig) # "object"
               \/ value.props.defaultCharacterConfig = JSNull
               \/ ~isImageFontCharacterConfigData(
                       value.props.defaultCharacterConfig, FALSE)
    THEN FALSE
    ELSE IF \/ ~In("characters", value)
            \/ TypeOf(value.props.characters) # "object"
            \/ value.props.characters = JSNull
    THEN FALSE
    ELSE \A char \in DOMAIN value.props.characters.props :
             /\ Len(char) = 1
             /\ isImageFontCharacterConfigData(
                    value.props.characters.props[char], TRUE)

-----------------------------------------------------------------------------
(* imageFontContentProcessor *)

\* value.key as an optional number, of a value the type guards accepted
NumberOf(value, key) ==
    IF In(key, value) THEN Some(value.props[key].num) ELSE Undefined

\* value.key as an optional vector, of a value the type guards accepted
VectorOf(value, key) ==
    IF In(key, value)
    THEN Some(vec2(value.props[key].props.x.num, value.props[key].props.y.num))
    ELSE Undefined

\* A character configuration the type guards accepted, as an
\* ImageFontCharacterConfig
CharacterConfigOf(value) ==
    [offset |-> VectorOf(value, "offset"),
     width |-> NumberOf(value, "width"),
     height |-> NumberOf(value, "height")]

\* data.content, which the type guard accepted, as the ImageFontConfig given
\* to the constructor
ConfigOfData(value) ==
    [offset |-> VectorOf(value, "offset"),
     scale |-> NumberOf(value, "scale"),
     defaultCharacterConfig |->
         IF In("defaultCharacterConfig", value)
         THEN Some(CharacterConfigOf(value.props.defaultCharacterConfig))
         ELSE Undefined,
     characters |->
         [char \in DOMAIN value.props.characters.props |->
             CharacterConfigOf(value.props.characters.props[char])]]

\* textureAtlas(image, { relative: true, width, height, regions }): one tile
\* for each character, the cell of the image at its textureAtlasPosition
TextureAtlasOf(image, value) ==
    [char \in DOMAIN value.props.characters.props |->
        [image |-> image,
         columns |-> value.props.textureAtlasSize.props.x.num,
         rows |-> value.props.textureAtlasSize.props.y.num,
         column |-> value.props.characters.props[char]
                        .props.textureAtlasPosition.props.x.num,
         row |-> value.props.characters.props[char]
                     .props.textureAtlasPosition.props.y.num]]

\* new ImageFont(atlas, data.content)
NewImageFont(atlas, value) ==
    [t |-> "font", textures |-> atlas,
     config |-> ImageFontConfigOf(ConfigOfData(value))]

\* content[imageName]?.content
ContentOf(map, name) ==
    IF name \in DOMAIN map THEN map[name].content ELSE JSUndefined

\* content[name] = entry
Store(map, name, entry) ==
    [n \in DOMAIN map \cup {name} |-> IF n = name THEN entry ELSE map[n]]

\* The entry stored for the font
ProcessedEntry(name, value) ==
    [name |-> name, type |-> "json", content |-> value,
     status |-> "processed"]

\* A processor that does not look for the image
ProcessedWithoutImage(map, entry, name) ==
    IF ~isImageFontConfigData(entry.content)
    THEN [thrown |-> Some("Invalid image font config"),
          font |-> Undefined, content |-> map]
    ELSE LET atlas == TextureAtlasOf(ContentOf(map, name), entry.content)
             made == NewImageFont(atlas, entry.content)
         IN  [thrown |-> Undefined,
              font |-> Some(made),
              content |-> Store(map, entry.name,
                                ProcessedEntry(entry.name, made))]

\* The outcome of imageFontContentProcessor(content, data, imageName): the
\* message of the Error it throws, if it throws, the font it constructs, if
\* it comes to it, and the content map it leaves
Processed(map, entry, name) ==
    IF ~isImageFontConfigData(entry.content)
    THEN [thrown |-> Some("Invalid image font config"),
          font |-> Undefined, content |-> map]
    ELSE IF Not(ContentOf(map, name))
    THEN [thrown |-> Some("Image '" \o name \o "' not found"),
          font |-> Undefined, content |-> map]
    ELSE LET atlas == TextureAtlasOf(ContentOf(map, name), entry.content)
             made == NewImageFont(atlas, entry.content)
         IN  [thrown |-> Undefined,
              font |-> Some(made),
              content |-> Store(map, entry.name,
                                ProcessedEntry(entry.name, made))]

-----------------------------------------------------------------------------
(* Inputs *)

Chars == {"a", "b"}

\* The tile of a character in the texture atlas
Tile(ch) == IF ch = "a" THEN [width |-> 8, height |-> 9]
            ELSE [width |-> 6, height |-> 5]

\* The texture atlas maps: any subset of the characters has a tile
TextureMaps == {[ch \in S |-> Tile(ch)] : S \in SUBSET Chars}

Texts == UNION {[1..n -> Chars] : n \in 0..MaxLen}

Opt(S) == {Undefined} \cup {Some(v) : v \in S}

ScaleOptions == Opt(1..MaxScale)

MonospaceOptions == Opt(BOOLEAN)

KerningOptions == Opt(0..MaxKerning)

AlignOptions == Opt({"left", "center", "right"})

BaseLineOptions == Opt({"top", "middle", "bottom"})

\* Options of the calls that do not place glyphs
MeasureOptions ==
    [scale : ScaleOptions, monospace : MonospaceOptions,
     kerning : KerningOptions, align : {Undefined}, baseLine : {Undefined}]

\* Options of drawText
DrawOptions ==
    [scale : Opt({MaxScale}), monospace : Opt({TRUE}),
     kerning : KerningOptions, align : AlignOptions,
     baseLine : BaseLineOptions]

\* The Records of character configurations: a is configured by one of
\* ACfgs or not at all, and so is b by one of BCfgs
CharacterMaps(ACfgs, BCfgs) ==
    {[ch \in S |-> IF ch = "a" THEN ca ELSE cb] :
        S \in SUBSET Chars, ca \in ACfgs, cb \in BCfgs}

\* The caller's configurations
Configs(Offsets, Scales, Defaults, Characters) ==
    [offset : Offsets, scale : Scales, defaultCharacterConfig : Defaults,
     characters : Characters]

\* The configuration of b when it has one
BConfig == [offset |-> Undefined, width |-> Some(2), height |-> Some(7)]

\* Configurations that vary every link of the width and height chains
GlyphConfigs ==
    Configs({Undefined}, Opt({MaxScale}),
            Opt([offset : {Undefined}, width : Opt({0, 5}),
                 height : Opt({6})]),
            CharacterMaps([offset : {Undefined}, width : Opt({0, 3}),
                           height : Opt({0, 4})],
                          {BConfig}))

\* Configurations for measuring texts
MeasureConfigs ==
    Configs({Undefined}, Opt({MaxScale}),
            Opt([offset : {Undefined}, width : Opt({5}), height : Opt({6})]),
            CharacterMaps([offset : {Undefined}, width : Opt({0, 3}),
                           height : Opt({4})],
                          {BConfig}))

\* Configurations that vary the offsets and the sizes of the glyphs
DrawConfigs ==
    Configs(Opt({vec2(1, 2)}), Opt({MaxScale}),
            Opt({[offset |-> Some(vec2(3, 3)), width |-> Some(5),
                  height |-> Some(6)]}),
            CharacterMaps({[offset |-> Some(vec2(2, 1)), width |-> Some(3),
                            height |-> Some(4)]},
                          {BConfig}))

\* The anchor of drawText
XS == {4}

YS == {10}

-----------------------------------------------------------------------------
(* The state machine.  The font is immutable and its methods are functions   *)
(* of the font and of their arguments, so the initial state holds a font as  *)
(* constructed together with the arguments of the calls, and the actions are *)
(* the calls.                                                                *)

\* new ImageFont(tex, cfg) with cfg among Cfgs, and the arguments
InitWith(Cfgs, Characters, TextArgs, OptionArgs) ==
    /\ textures \in TextureMaps
    /\ config \in {ImageFontConfigOf(cfg) : cfg \in Cfgs}
    /\ character \in Characters
    /\ text \in TextArgs
    /\ options \in OptionArgs
    /\ x \in XS
    /\ y \in YS
    /\ op = "new"
    /\ result = 0
    /\ size = vec2(0, Fin(0))
    /\ originX = 0
    /\ actualY = Fin(0)
    /\ draws = <<>>
    /\ currentX = 0
    /\ colorCache = <<>>
    /\ glyphs = <<>>
    /\ content = <<>>
    /\ data = <<>>
    /\ imageName = ""
    /\ thrown = <<>>
    /\ font = <<>>
    /\ guarded = <<>>
    /\ verdict = <<>>

Init == InitWith(DrawConfigs, {NoCharacter}, Texts, DrawOptions)

InitMeasure == InitWith(MeasureConfigs, {NoCharacter}, Texts, MeasureOptions)

InitGlyph ==
    InitWith(GlyphConfigs, Chars \cup {NoCharacter}, {<<>>}, MeasureOptions)

inputs == <<textures, config, character, text, options, x, y>>

MeasureCharacterWidth ==
    /\ op' = "measureCharacterWidth"
    /\ result' = measureCharacterWidth(textures, config, character, options)
    /\ UNCHANGED <<inputs, size, originX, actualY, draws, currentX,
                   colorCache, glyphs, loader>>

MeasureCharacterHeight ==
    /\ op' = "measureCharacterHeight"
    /\ result' = measureCharacterHeight(textures, config, character, options)
    /\ UNCHANGED <<inputs, size, originX, actualY, draws, currentX,
                   colorCache, glyphs, loader>>

MeasureText ==
    /\ op' = "measureText"
    /\ size' = measureText(textures, config, text, options)
    /\ UNCHANGED <<inputs, result, originX, actualY, draws, currentX,
                   colorCache, glyphs, loader>>

DrawText ==
    LET sz == measureText(textures, config, text, options)
        startX == AlignX(x, sz, options)
        ay == BaseLineY(y, sz, options)
        done == DrawLoop(textures, config, text, options, ay, 1, startX, <<>>)
    IN  /\ op' = "drawText"
        /\ size' = sz
        /\ originX' = startX
        /\ actualY' = ay
        /\ draws' = done.draws
        /\ currentX' = done.currentX
        /\ UNCHANGED <<inputs, result, colorCache, glyphs, loader>>

Next == DrawText

NextMeasure == MeasureText

NextGlyph == MeasureCharacterWidth \/ MeasureCharacterHeight

Spec == Init /\ [][Next]_vars

SpecMeasure == InitMeasure /\ [][NextMeasure]_vars

SpecGlyph == InitGlyph /\ [][NextGlyph]_vars

-----------------------------------------------------------------------------
(* The font of the README.  The layout options of the calls are drawn with   *)
(* the font; each call of drawText draws its text and its coloring options.  *)

\* The font's configuration: both characters configured, and b without a
\* configuration (its width and height come from its tile, if it has one)
CacheConfigs ==
    {[offset |-> Some(vec2(1, 2)), scale |-> Undefined,
      defaultCharacterConfig |-> Undefined,
      characters |-> [ch \in S |->
                        IF ch = "a"
                        THEN [offset |-> Some(vec2(2, 1)), width |-> Some(3),
                              height |-> Some(4)]
                        ELSE BConfig]] : S \in {{"a"}, {"a", "b"}}}

\* The coloring options of a call: no color, the empty color, a color with
\* the default mode, with 'custom' without a coloring function and with each
\* of two coloring functions, and another color with 'multiply'
Colorings ==
    {[color |-> Undefined, coloringMode |-> Undefined,
      coloringFunction |-> Undefined],
     [color |-> Some(""), coloringMode |-> Undefined,
      coloringFunction |-> Undefined],
     [color |-> Some("red"), coloringMode |-> Undefined,
      coloringFunction |-> Undefined],
     [color |-> Some("red"), coloringMode |-> Some("custom"),
      coloringFunction |-> Undefined],
     [color |-> Some("red"), coloringMode |-> Some("custom"),
      coloringFunction |-> Some("f")],
     [color |-> Some("red"), coloringMode |-> Some("custom"),
      coloringFunction |-> Some("g")],
     [color |-> Some("blue"), coloringMode |-> Some("multiply"),
      coloringFunction |-> Undefined]}

\* The layout options of the calls: a scale, a kerning and alignments that
\* make the origin depend on the size measured
Layouts ==
    {[scale |-> Some(MaxScale), monospace |-> Undefined,
      kerning |-> Some(MaxKerning), align |-> Some("center"),
      baseLine |-> Some("bottom")]}

\* The options of a call: layout options and coloring options
WithColoring(layout, coloring) ==
    [scale |-> layout.scale, monospace |-> layout.monospace,
     kerning |-> layout.kerning, align |-> layout.align,
     baseLine |-> layout.baseLine, color |-> coloring.color,
     coloringMode |-> coloring.coloringMode,
     coloringFunction |-> coloring.coloringFunction]

\* The texts drawn: one character, two characters, one character twice
CacheTexts == {<<"b">>, <<"b", "a">>, <<"a", "a">>}

\* The atlases of the font: every tile, and one tile missing
CacheTextureMaps == {tex \in TextureMaps : "a" \in DOMAIN tex}

InitCache ==
    /\ InitWith(CacheConfigs, {NoCharacter}, {<<>>},
                {WithColoring(l, [color |-> Undefined,
                                  coloringMode |-> Undefined,
                                  coloringFunction |-> Undefined]) :
                    l \in Layouts})
    /\ textures \in CacheTextureMaps

\* drawText(context, text, x, y, options) of the README; each local constant
\* of the method is bound once
DrawTextColored ==
    \E t \in CacheTexts, coloring \in Colorings :
        \E opts \in {WithColoring(options, coloring)} :
        \E sz \in {measureText(textures, config, t, opts)} :
        \E startX \in {AlignX(x, sz, opts)}, ay \in {BaseLineY(y, sz, opts)} :
        \E done \in {DrawLoopColored(textures, config, t, opts, ay, 1, startX,
                                    <<>>, colorCache, <<>>)} :
            /\ op' = "drawText"
            /\ text' = t
            /\ options' = opts
            /\ size' = sz
            /\ originX' = startX
            /\ actualY' = ay
            /\ draws' = done.draws
            /\ currentX' = done.currentX
            /\ colorCache' = done.colorCache
            /\ glyphs' = done.glyphs
            /\ UNCHANGED <<textures, config, character, x, y, result,
                           loader>>

NextCache == DrawTextColored \/ MeasureText

SpecCache == InitCache /\ [][NextCache]_vars

-----------------------------------------------------------------------------
(* The content processor.  The content map starts with or without an image   *)
(* and with or without an entry of the font's name; each call draws the      *)
(* content of the entry to process and the name of the image.                *)

\* { x: a, y: b }
JSVector(a, b) == JSObject(("x" :> JSNumber(a)) @@ ("y" :> JSNumber(b)))

\* The property key of an object, if it has a value
WithProperty(key, value) ==
    IF value = Undefined THEN NoProperties ELSE key :> value[1]

\* A value shaped like ImageFontConfigData, of the properties that have a
\* value
ConfigData(atlasSize, off, factor, default, chars) ==
    JSObject(WithProperty("textureAtlasSize", atlasSize)
             @@ WithProperty("offset", off)
             @@ WithProperty("scale", factor)
             @@ WithProperty("defaultCharacterConfig", default)
             @@ WithProperty("characters", chars))

\* Character configurations: one with its position only, one with a width
\* and an offset
PlainCharacter == JSObject("textureAtlasPosition" :> JSVector(0, 0))

WideCharacter ==
    JSObject(("textureAtlasPosition" :> JSVector(1, 0))
             @@ ("width" :> JSNumber(3))
             @@ ("offset" :> JSVector(2, 1)))

\* Values of textureAtlasSize: omitted, well-formed, null, without y, with a
\* string for x
SizeValues ==
    {Undefined, Some(JSVector(2, 1)), Some(JSNull),
     Some(JSObject("x" :> JSNumber(2))),
     Some(JSObject(("x" :> JSString("2")) @@ ("y" :> JSNumber(1))))}

\* Values of offset: omitted, well-formed, a number, without x
OffsetValues ==
    {Undefined, Some(JSVector(1, 2)), Some(JSNumber(1)),
     Some(JSObject("y" :> JSNumber(2)))}

\* Values of scale: omitted, a number, a string
ScaleValues == {Undefined, Some(JSNumber(2)), Some(JSString("2"))}

\* Values of defaultCharacterConfig: omitted, empty, with a width, with a
\* string for height, null
DefaultValues ==
    {Undefined, Some(JSObject(NoProperties)),
     Some(JSObject("width" :> JSNumber(5))),
     Some(JSObject("height" :> JSString("6"))), Some(JSNull)}

\* Values of characters: omitted, empty, one character, two characters, a
\* character without a position, a key of two characters, null
CharactersValues ==
    {Undefined, Some(JSObject(NoProperties)),
     Some(JSObject("a" :> PlainCharacter)),
     Some(JSObject(("a" :> PlainCharacter) @@ ("b" :> WideCharacter))),
     Some(JSObject("a" :> JSObject(NoProperties))),
     Some(JSObject("ab" :> PlainCharacter)), Some(JSNull)}

\* The contents processed: values that are no objects, and a well-formed
\* configuration with one property at a time taken from its values
DataContents ==
    {JSNull, JSNumber(1), JSString("font")}
    \cup {ConfigData(atlasSize, Undefined, Undefined, Undefined,
                     Some(JSObject("a" :> PlainCharacter))) :
             atlasSize \in SizeValues}
    \cup {ConfigData(Some(JSVector(2, 1)), off, factor, Undefined,
                     Some(JSObject("a" :> PlainCharacter))) :
             off \in OffsetValues, factor \in ScaleValues}
    \cup {ConfigData(Some(JSVector(2, 1)), Undefined, Undefined, default,
                     chars) :
             default \in DefaultValues, chars \in CharactersValues}

\* The name of the font's entry
FontName == "font"

\* The entry to process, as loaded
LoadedEntry(value) ==
    [name |-> FontName, type |-> "json", content |-> value,
     status |-> "loaded"]

\* An image
JSImage == [t |-> "image", image |-> "sheet"]

\* The entry of the image, as processed
ImageEntry(value) ==
    [name |-> "image", type |-> "image", content |-> value,
     status |-> "processed"]

\* The contents of the entry of the image: an image, and falsy values
ImageContents == {JSImage, JSNull, JSString("")}

\* The names given for the image
ImageNames == {"image", "missing"}

\* The content maps before the first call
ContentMaps ==
    {[n \in S |-> IF n = "image" THEN ImageEntry(image)
                  ELSE LoadedEntry(JSNull)] :
        S \in SUBSET {"image", FontName}, image \in ImageContents}

InitContent ==
    /\ content \in ContentMaps
    /\ data = LoadedEntry(JSNull)
    /\ imageName = "image"
    /\ thrown = Undefined
    /\ font = Undefined
    /\ guarded = JSUndefined
    /\ verdict = Undefined
    /\ textures = <<>>
    /\ config = DEFAULT_CONFIG
    /\ character = NoCharacter
    /\ text = <<>>
    /\ options = <<>>
    /\ x = 0
    /\ y = 0
    /\ op = "new"
    /\ result = 0
    /\ size = vec2(0, Fin(0))
    /\ originX = 0
    /\ actualY = Fin(0)
    /\ draws = <<>>
    /\ currentX = 0
    /\ colorCache = <<>>
    /\ glyphs = <<>>

\* imageFontContentProcessor(content, data, imageName)
ImageFontContentProcessor ==
    \E value \in DataContents, name \in ImageNames :
        \E done \in {Processed(content, LoadedEntry(value), name)} :
            /\ op' = "imageFontContentProcessor"
            /\ data' = LoadedEntry(value)
            /\ imageName' = name
            /\ thrown' = done.thrown
            /\ font' = done.font
            /\ content' = done.content
            /\ UNCHANGED <<inputs, result, size, originX, actualY, draws,
                           currentX, colorCache, glyphs, guarded, verdict>>

NextContent == ImageFontContentProcessor

SpecContent == InitContent /\ [][NextContent]_vars

-----------------------------------------------------------------------------
(* The type guard.  The value it is given is drawn with the initial state:   *)
(* values that are no objects, and objects with every combination of the     *)
(* values of the five properties it reads.                                   *)

\* A character configuration of the given properties
CharacterData(position, off, w, h) ==
    JSObject(WithProperty("textureAtlasPosition", position)
             @@ WithProperty("offset", off)
             @@ WithProperty("width", w)
             @@ WithProperty("height", h))

\* Values of a vector property: omitted, well-formed, null, a number, without
\* x, without y, with a string for x, with a string for y
VectorValues ==
    {Undefined, Some(JSVector(1, 2)), Some(JSNull), Some(JSNumber(1)),
     Some(JSObject("y" :> JSNumber(2))), Some(JSObject("x" :> JSNumber(1))),
     Some(JSObject(("x" :> JSString("1")) @@ ("y" :> JSNumber(2)))),
     Some(JSObject(("x" :> JSNumber(1)) @@ ("y" :> JSString("2"))))}

\* Values of a number property: omitted, a number, a string, null
NumberValues == {Undefined, Some(JSNumber(2)), Some(JSString("2")),
                 Some(JSNull)}

\* Values of a character configuration: the objects with one property at a
\* time taken from its values, and values that are no objects
CharacterValues ==
    {JSNull, JSNumber(1), JSString("a"), PlainCharacter, WideCharacter}
    \cup {CharacterData(position, Undefined, Undefined, Undefined) :
             position \in VectorValues}
    \cup {CharacterData(Some(JSVector(0, 0)), off, Undefined, Undefined) :
             off \in VectorValues}
    \cup {CharacterData(position, Some(JSVector(2, 1)), w, h) :
             position \in {Undefined, Some(JSVector(0, 0))},
             w \in NumberValues, h \in NumberValues}

\* Values of characters for the type guard: those of CharactersValues, a
\* number, a key of no character, and one or two characters configured by
\* the values of a character configuration
GuardCharactersValues ==
    CharactersValues
    \cup {Some(JSNumber(1)), Some(JSObject("" :> PlainCharacter))}
    \cup {Some(JSObject("a" :> entry)) : entry \in CharacterValues}
    \cup {Some(JSObject(("a" :> PlainCharacter) @@ ("b" :> entry))) :
             entry \in CharacterValues}

\* Values of defaultCharacterConfig for the type guard: omitted, and the
\* values of a character configuration
GuardDefaultValues ==
    {Undefined} \cup {Some(entry) : entry \in CharacterValues}

\* The values given to the type guard
GuardValues ==
    {JSUndefined, JSNull, JSNumber(1), JSString("font"),
     JSObject(NoProperties)}
    \cup {ConfigData(atlasSize, off, factor, Undefined, chars) :
             atlasSize \in VectorValues, off \in VectorValues,
             factor \in NumberValues, chars \in CharactersValues}
    \cup {ConfigData(Some(JSVector(2, 1)), off, factor, default, chars) :
             off \in {Undefined, Some(JSVector(1, 2))},
             factor \in {Undefined, Some(JSNumber(2))},
             default \in GuardDefaultValues,
             chars \in GuardCharactersValues}

InitGuard ==
    /\ guarded \in GuardValues
    /\ verdict = Undefined
    /\ content = <<>>
    /\ data = LoadedEntry(JSNull)
    /\ imageName = "image"
    /\ thrown = Undefined
    /\ font = Undefined
    /\ textures = <<>>
    /\ config = DEFAULT_CONFIG
    /\ character = NoCharacter
    /\ text = <<>>
    /\ options = <<>>
    /\ x = 0
    /\ y = 0
    /\ op = "new"
    /\ result = 0
    /\ size = vec2(0, Fin(0))
    /\ originX = 0
    /\ actualY = Fin(0)
    /\ draws = <<>>
    /\ currentX = 0
    /\ colorCache = <<>>
    /\ glyphs = <<>>

\* isImageFontConfigData(value)
IsImageFontConfigData ==
    /\ op' = "isImageFontConfigData"
    /\ verdict' = Some(isImageFontConfigData(guarded))
    /\ UNCHANGED <<inputs, result, size, originX, actualY, draws, currentX,
                   colorCache, glyphs, content, data, imageName, thrown,
                   font, guarded>>

NextGuard == IsImageFontConfigData

SpecGuard == InitGuard /\ [][NextGuard]_vars

-----------------------------------------------------------------------------
(* Properties.  They are stated on the arguments and the font held by the   *)
(* state, with the fallback chains and the sums written out.                *)

\* The first defined value of a sequence of optional values, else d
RECURSIVE FirstPresent(_, _)
FirstPresent(s, d) ==
    IF s = <<>> THEN d
    ELSE IF s[1] # <<>> THEN s[1][1] ELSE FirstPresent(Tail(s), d)

HasConfig(ch) == ch \in DOMAIN config.characters

HasTile(ch) == ch \in DOMAIN textures

OwnWidth(ch) == IF HasConfig(ch) THEN config.characters[ch].width ELSE <<>>

OwnHeight(ch) == IF HasConfig(ch) THEN config.characters[ch].height ELSE <<>>

OwnOffset(ch) == IF HasConfig(ch) THEN config.characters[ch].offset ELSE <<>>

TileWidth(ch) == IF HasTile(ch) THEN <<textures[ch].width>> ELSE <<>>

TileHeight(ch) == IF HasTile(ch) THEN <<textures[ch].height>> ELSE <<>>

DefaultWidth == config.defaultCharacterConfig.width

DefaultHeight == config.defaultCharacterConfig.height

DefaultOffset == config.defaultCharacterConfig.offset

\* (options.scale ?? 1) * (fontConfig.scale ?? 1)
EffectiveScale ==
    FirstPresent(<<options.scale>>, 1) * FirstPresent(<<config.scale>>, 1)

IsMonospace == options.monospace = <<TRUE>>

\* The resolved width and height of a character under options opts
ResolvedWidth(ch, opts) == measureCharacterWidth(textures, config, ch, opts)

ResolvedHeight(ch) == measureCharacterHeight(textures, config, ch, options)

\* The sum of the resolved widths, under the call's options, of the first k
\* characters of the text
Advance(k) ==
    LET acc[j \in 0..Len(text)] ==
            IF j = 0 THEN 0 ELSE acc[j - 1] + ResolvedWidth(text[j], options)
    IN  acc[k]

\* The call's options with kerning and monospace removed
Stripped == [options EXCEPT !.kerning = <<>>, !.monospace = <<>>]

\* C1: the width measured for a non-empty text is the sum of the resolved
\* widths (full options) of all characters but the last, plus the width of
\* the last character resolved with kerning and monospace stripped.
C1_WidthLastStripped ==
    (op = "measureText" /\ text # <<>>) =>
        size.x = Advance(Len(text) - 1)
                 + ResolvedWidth(text[Len(text)], Stripped)

\* Witness of C1: a text of two characters measured in monospace with a
\* kerning, where stripping changes the width.
C1_Witness ==
    /\ op = "measureText"
    /\ Len(text) = 2
    /\ IsMonospace
    /\ options.kerning = <<2>>
    /\ size.x # Advance(2)
    /\ size.x = Advance(1) + ResolvedWidth(text[2], Stripped)

\* C2: measureText("") returns a zero-size box, whatever the font
\* configures.
C2_EmptyTextZeroSize ==
    (op = "measureText" /\ text = <<>>) => size = vec2(0, Fin(0))

\* C3: in proportional mode the resolved width is the first present of the
\* character's width, the default width, the tile's width and 0, times
\* (kerning ?? 1), times the effective scale.
C3_ProportionalWidth ==
    (op = "measureCharacterWidth" /\ ~IsMonospace) =>
        result = FirstPresent(<<OwnWidth(character), DefaultWidth,
                                TileWidth(character)>>, 0)
                 * FirstPresent(<<options.kerning>>, 1)
                 * EffectiveScale

\* Witness of C3: a width of 0 configured for the character is used, though
\* a default width and a tile exist and a kerning and scales are given.
C3_Witness ==
    /\ op = "measureCharacterWidth"
    /\ options.monospace = <<FALSE>>
    /\ OwnWidth(character) = <<0>>
    /\ DefaultWidth = <<5>>
    /\ HasTile(character)
    /\ options.kerning = <<2>>
    /\ options.scale = <<2>>
    /\ config.scale = <<2>>
    /\ result = 0

C5_HeightIsMax ==
    (op = "measureText" /\ text # <<>>) =>
        /\ size.y.inf = 0
        /\ \E i \in 1..Len(text) : size.y.val = ResolvedHeight(text[i])
        /\ \A i \in 1..Len(text) : size.y.val >= ResolvedHeight(text[i])

\* Witness of C5: the taller character comes first.
C5_Witness ==
    /\ op = "measureText"
    /\ text = <<"b", "a">>
    /\ OwnHeight("a") = <<4>>
    /\ OwnHeight("b") = <<7>>
    /\ EffectiveScale = 2
    /\ size.y = Fin(14)

C7_HeightOfTile ==
    (/\ op = "measureCharacterHeight"
     /\ OwnHeight(character) = <<>>
     /\ DefaultHeight = <<>>
     /\ HasTile(character)) =>
        result = TileHeight(character)[1] * EffectiveScale

\* A character with no configuration, no default width or height, no tile
Unknown(ch) ==
    /\ ~HasConfig(ch)
    /\ DefaultWidth = <<>>
    /\ DefaultHeight = <<>>
    /\ ~HasTile(ch)

\* C8 as claimed: the resolved width and height of an unknown character are
\* 0 for every options value.
C8_UnknownIsZero ==
    (op \in {"measureCharacterWidth", "measureCharacterHeight"}
     /\ Unknown(character)) => result = 0

\* C8 amended: the resolved height of an unknown character is 0, and its
\* resolved width is 0 except in monospace mode with a kerning, where it is
\* the kerning times the effective scale.
C8_UnknownIsZeroOrKerning ==
    (op \in {"measureCharacterWidth", "measureCharacterHeight"}
     /\ Unknown(character)) =>
        result = IF op = "measureCharacterWidth" /\ IsMonospace
                    /\ options.kerning # <<>>
                 THEN options.kerning[1] * EffectiveScale
                 ELSE 0

\* Witness of C8: the width of an unknown character in monospace mode with a
\* kerning.
C8_Witness ==
    /\ op = "measureCharacterWidth"
    /\ character = "b"
    /\ Unknown("b")
    /\ IsMonospace
    /\ options.kerning = <<2>>
    /\ options.scale = <<2>>
    /\ config.scale = <<1>>
    /\ result = 4

\* The offset of a glyph: the font's offset plus the character's, else the
\* default's, else zero
OffsetOf(ch) ==
    LET g == FirstPresent(<<config.offset>>, [x |-> 0, y |-> 0])
        c == FirstPresent(<<OwnOffset(ch), DefaultOffset>>, [x |-> 0, y |-> 0])
    IN  [x |-> g.x + c.x, y |-> g.y + c.y]

\* C9: drawText measures the text, starts the cursor at x, x - width/2 or
\* x - width by align, and draws every glyph from the vertical origin y,
\* y - height/2 or y - height by baseLine.  (Coordinates in half-pixels.)
C9_Origin ==
    (op = "drawText") =>
        /\ size = measureText(textures, config, text, options)
        /\ originX = IF options.align = <<"center">> THEN 2 * x - size.x
                     ELSE IF options.align = <<"right">>
                          THEN 2 * x - 2 * size.x
                          ELSE 2 * x
        /\ options.baseLine \in {<<>>, <<"top">>} => actualY = Fin(2 * y)
        /\ (options.baseLine = <<"middle">> /\ text # <<>>) =>
               actualY = Fin(2 * y - size.y.val)
        /\ (options.baseLine = <<"bottom">> /\ text # <<>>) =>
               actualY = Fin(2 * y - 2 * size.y.val)
        /\ (options.baseLine \in {<<"middle">>, <<"bottom">>} /\ text = <<>>) =>
               actualY = PosInfinity
        /\ \A k \in 1..Len(draws) :
               draws[k].dy =
                   Fin(actualY.val
                       - 2 * OffsetOf(draws[k].texture).y * EffectiveScale)

\* Witness of C9: two glyphs drawn centered on a text of odd width, from the
\* bottom base line.
C9_Witness ==
    /\ op = "drawText"
    /\ options.align = <<"center">>
    /\ options.baseLine = <<"bottom">>
    /\ Len(draws) = 2
    /\ size.x % 2 = 1
    /\ originX = 2 * x - size.x
    /\ actualY = Fin(2 * y - 2 * size.y.val)

\* The number of characters among the first i of the text that have a tile
Rank(i) == Cardinality({j \in 1..i : HasTile(text[j])})

\* C10: the i-th character, when it has a tile, gets exactly one draw call,
\* at the cursor (the origin plus the resolved widths of the characters
\* before it) minus its scaled offset, of the scaled size of its tile, and
\* the draw calls are in text order.  (Coordinates in half-pixels.)
C10_Placement ==
    (op = "drawText") =>
        /\ Len(draws) = Rank(Len(text))
        /\ \A i \in 1..Len(text) :
               HasTile(text[i]) =>
                   draws[Rank(i)] =
                       [texture |-> text[i],
                        dx |-> originX + 2 * Advance(i - 1)
                               - 2 * OffsetOf(text[i]).x * EffectiveScale,
                        dy |-> Fin(actualY.val
                                   - 2 * OffsetOf(text[i]).y * EffectiveScale),
                        dw |-> 2 * textures[text[i]].width * EffectiveScale,
                        dh |-> 2 * textures[text[i]].height * EffectiveScale]

\* Witness of C10: the second glyph of a text drawn after a character without
\* a tile, with offsets, a kerning and scales.
C10_Witness ==
    /\ op = "drawText"
    /\ text = <<"b", "a">>
    /\ ~HasTile("b")
    /\ Len(draws) = 1
    /\ options.kerning = <<2>>
    /\ EffectiveScale = 4
    /\ OffsetOf("a") = [x |-> 3, y |-> 3]
    /\ draws[1].texture = "a"
    /\ draws[1].dx = originX + 2 * Advance(1) - 24

\* C12: with align 'right' the cursor of the first glyph is x - size.width,
\* and the cursor of the last glyph plus its width with kerning and monospace
\* stripped is x.  (Coordinates in half-pixels.)
C12_RightEdge ==
    (op = "drawText" /\ options.align = <<"right">> /\ text # <<>>) =>
        /\ originX = 2 * x - 2 * size.x
        /\ originX + 2 * Advance(Len(text) - 1)
               + 2 * ResolvedWidth(text[Len(text)], Stripped) = 2 * x
        /\ currentX = originX + 2 * Advance(Len(text))

\* Witness of C12: two characters drawn right-aligned in monospace with a
\* kerning, where the cursor ends beyond x.
C12_Witness ==
    /\ op = "drawText"
    /\ options.align = <<"right">>
    /\ Len(text) = 2
    /\ IsMonospace
    /\ options.kerning = <<2>>
    /\ size.x > 0
    /\ originX = 2 * x - 2 * size.x
    /\ currentX # 2 * x

\* The call's options with scale 1, and what drawText computes with them
AtScaleOne == [options EXCEPT !.scale = <<1>>]

SizeAtScaleOne == measureText(textures, config, text, AtScaleOne)

DrawsAtScaleOne ==
    DrawLoop(textures, config, text, AtScaleOne,
             BaseLineY(y, SizeAtScaleOne, AtScaleOne), 1,
             AlignX(x, SizeAtScaleOne, AtScaleOne), <<>>).draws

\* k times an extended number
Times(k, e) == [inf |-> e.inf, val |-> k * e.val]

\* C18: with fontConfig.scale = 1, options.scale = k (2 in particular)
\* multiplies by k, relative to options.scale = 1, the measured size, every
\* advance, every glyph's displacement from the anchor and every
\* destination size.  (Coordinates in half-pixels.)
C18_ScaleDoubles ==
    (op = "drawText" /\ config.scale = <<1>> /\ options.scale # <<>>) =>
        LET k == options.scale[1]
            one == DrawsAtScaleOne
        IN  /\ size.x = k * SizeAtScaleOne.x
            /\ size.y = Times(k, SizeAtScaleOne.y)
            /\ \A i \in 1..Len(text) :
                   ResolvedWidth(text[i], options)
                       = k * ResolvedWidth(text[i], AtScaleOne)
            /\ originX - 2 * x = k * (AlignX(x, SizeAtScaleOne, AtScaleOne)
                                      - 2 * x)
            /\ Len(draws) = Len(one)
            /\ \A j \in 1..Len(draws) :
                   /\ draws[j].dx - 2 * x = k * (one[j].dx - 2 * x)
                   /\ draws[j].dy.val - 2 * y = k * (one[j].dy.val - 2 * y)
                   /\ draws[j].dw = k * one[j].dw
                   /\ draws[j].dh = k * one[j].dh

\* Witness of C18: two glyphs drawn at scale 2, centered on the middle base
\* line, with a kerning.
C18_Witness ==
    /\ op = "drawText"
    /\ config.scale = <<1>>
    /\ options.scale = <<2>>
    /\ options.align = <<"center">>
    /\ options.baseLine = <<"middle">>
    /\ options.kerning = <<2>>
    /\ Len(draws) = 2
    /\ size.x = 2 * SizeAtScaleOne.x
    /\ size.x > 0
    /\ draws[2].dx - 2 * x # DrawsAtScaleOne[2].dx - 2 * x

\* The call's options with the kerning omitted, and what drawText computes
\* with them
NoKerning == [options EXCEPT !.kerning = <<>>]

SizeNoKerning == measureText(textures, config, text, NoKerning)

DrawsNoKerning ==
    DrawLoop(textures, config, text, NoKerning,
             BaseLineY(y, SizeNoKerning, NoKerning), 1,
             AlignX(x, SizeNoKerning, NoKerning), <<>>).draws

\* C19 as claimed: with kerning = 1 the size and the placements are those
\* of the call with the kerning omitted, monospace included.
C19_KerningDefaultOne ==
    (op = "drawText" /\ options.kerning = <<1>>) =>
        /\ size = SizeNoKerning
        /\ draws = DrawsNoKerning

\* C19 amended: the same when monospace is not true.
C19_KerningDefaultOneProportional ==
    (op = "drawText" /\ options.kerning = <<1>> /\ ~IsMonospace) =>
        /\ size = SizeNoKerning
        /\ draws = DrawsNoKerning

\* Witness of C19: two glyphs of non-zero width drawn in proportional mode
\* with kerning 1.
C19_Witness ==
    /\ op = "drawText"
    /\ options.kerning = <<1>>
    /\ ~IsMonospace
    /\ Len(draws) = 2
    /\ draws[2].dx > draws[1].dx
    /\ draws = DrawsNoKerning
    /\ size = SizeNoKerning

-----------------------------------------------------------------------------
(* The font of the README: characters without a tile, and the color cache *)

\* The atlas with a tile for every character
FullAtlas == [ch \in Chars |-> Tile(ch)]

\* The draw calls of the text under the call's options, were every tile in
\* the atlas
DrawsWithAllTiles ==
    LET sz == measureText(FullAtlas, config, text, options)
    IN  DrawLoop(FullAtlas, config, text, options,
                 BaseLineY(y, sz, options), 1, AlignX(x, sz, options),
                 <<>>).draws

\* The destination rectangle of a draw call
Rect(d) == <<d.dx, d.dy, d.dw, d.dh>>

\* The cursor after the i-th character of the text
CursorAfter(i) == IF i = Len(text) THEN currentX ELSE glyphs[i + 1].cursor

\* What C11 says of the characters without a tile themselves: no draw call,
\* no cache key and no cache entry, and the cursor moves on by the resolved
\* width
MissingTilesSkipped ==
    /\ Len(glyphs) = Len(text)
    /\ Len(draws) = Rank(Len(text))
    /\ \A k \in 1..Len(colorCache) : HasTile(colorCache[k].value.tile)
    /\ \A i \in 1..Len(text) :
           ~HasTile(text[i]) =>
               /\ ~glyphs[i].drawn
               /\ glyphs[i].cacheKey = Undefined
               /\ ~glyphs[i].created
               /\ glyphs[i].after = glyphs[i].before
               /\ CursorAfter(i)
                      = glyphs[i].cursor + 2 * ResolvedWidth(text[i], options)

\* The glyphs after a character without a tile are drawn where they would be
\* drawn with every tile in the atlas
LaterGlyphsAsWithAllTiles ==
    \A i \in 1..Len(text) :
        (HasTile(text[i]) /\ \E j \in 1..(i - 1) : ~HasTile(text[j])) =>
            Rect(draws[Rank(i)]) = Rect(DrawsWithAllTiles[i])

\* The width of every character without a tile is configured (its own or the
\* default), so that it does not come from a tile
MissingTilesConfigured ==
    \A i \in 1..Len(text) :
        ~HasTile(text[i]) =>
            OwnWidth(text[i]) # <<>> \/ DefaultWidth # <<>>

Range(seq) == {seq[i] : i \in 1..Len(seq)}

\* The keys of a cache holding keys, after a request of key k, when the cache
\* is first-in first-out: a key it holds changes nothing, a new key is added
\* last, after the oldest key is dropped when the cache is full
FifoRequest(keys, k) ==
    IF k \in Range(keys) THEN keys
    ELSE IF Len(keys) >= MAX_COLOR_CACHE_SIZE THEN Append(Tail(keys), k)
    ELSE Append(keys, k)

\* The trace of a call of drawText is that of a call made with the cache
\* holding the given keys: each iteration starts from the keys the one before
\* left
TraceFrom(keys, trace) ==
    \A i \in 1..Len(trace) :
        trace[i].before = IF i = 1 THEN keys ELSE trace[i - 1].after

\* The keys the trace of a call leaves in the cache
LeftBy(keys, trace) ==
    IF trace = <<>> THEN keys ELSE trace[Len(trace)].after

\* C13: the color cache evicts in insertion order.  Over every call of
\* drawText, an iteration that builds no key or finds its key in the cache
\* leaves the keys and their order as they are; one that inserts a key adds
\* it last, and when the cache holds MAX_COLOR_CACHE_SIZE entries (3 here for
\* the 1000 of the source) it first drops exactly the oldest entry; no key is
\* ever held twice.
C13_FifoEviction ==
    [][op' = "drawText" =>
          /\ TraceFrom(CacheKeys(colorCache), glyphs')
          /\ CacheKeys(colorCache') = LeftBy(CacheKeys(colorCache), glyphs')
          /\ Cardinality(Range(CacheKeys(colorCache'))) = Len(colorCache')
          /\ \A i \in 1..Len(glyphs') :
                 LET g == glyphs'[i]
                 IN  /\ g.cacheKey = Undefined => g.after = g.before
                     /\ g.cacheKey # Undefined =>
                            /\ g.hit = (g.cacheKey[1] \in Range(g.before))
                            /\ g.after = FifoRequest(g.before, g.cacheKey[1])
                            /\ g.hit => g.after = g.before
                            /\ (~g.hit
                                /\ Len(g.before) = MAX_COLOR_CACHE_SIZE) =>
                                   /\ Len(g.after) = MAX_COLOR_CACHE_SIZE
                                   /\ Range(g.before) \ Range(g.after)
                                          = {g.before[1]}]_vars

\* Witness of C13: a call whose first glyph found its key in a full cache and
\* whose second inserted a new key into the full cache, which dropped the
\* oldest key and kept the others in order.
C13_Witness ==
    /\ op = "drawText"
    /\ Len(glyphs) = 2
    /\ glyphs[1].hit
    /\ Len(glyphs[1].before) = MAX_COLOR_CACHE_SIZE
    /\ glyphs[2].created
    /\ glyphs[2].after = Append(Tail(glyphs[1].before), glyphs[2].cacheKey[1])
    /\ CacheKeys(colorCache) = glyphs[2].after

\* C14: the color cache never holds more than MAX_COLOR_CACHE_SIZE entries (3
\* here for the 1000 of the source), after any calls of drawText and after
\* every iteration within a call.
C14_CacheBounded ==
    /\ Len(colorCache) <= MAX_COLOR_CACHE_SIZE
    /\ \A i \in 1..Len(glyphs) :
           /\ Len(glyphs[i].before) <= MAX_COLOR_CACHE_SIZE
           /\ Len(glyphs[i].after) <= MAX_COLOR_CACHE_SIZE

\* Witness of C14: a call that inserted two new keys into a full cache, which
\* is full afterwards.
C14_Witness ==
    /\ op = "drawText"
    /\ Len(glyphs) = 2
    /\ Len(glyphs[1].before) = MAX_COLOR_CACHE_SIZE
    /\ glyphs[1].created
    /\ glyphs[2].created
    /\ Len(colorCache) = MAX_COLOR_CACHE_SIZE

\* The draw call of the i-th character of the text, which has a tile
DrawOf(i) == draws[Rank(i)]

\* C15: over every call of drawText, createColoredTexture is called for a
\* glyph exactly when a cache key is built for it and the cache does not hold
\* the key at that moment; the key is then inserted, as the newest entry, with
\* the texture created, which is the one drawn; a glyph whose key is in the
\* cache creates nothing and draws the cached texture.
C15_RecolorOncePerKey ==
    [][op' = "drawText" =>
          /\ TraceFrom(CacheKeys(colorCache), glyphs')
          /\ \A i \in 1..Len(glyphs') :
                 LET g == glyphs'[i]
                 IN  /\ g.created =
                            (/\ g.cacheKey # Undefined
                             /\ g.cacheKey[1] \notin Range(g.before))
                     /\ g.created =>
                            /\ g.after # <<>>
                            /\ g.after[Len(g.after)] = g.cacheKey[1]
                     /\ (g.cacheKey # Undefined /\ i = Len(glyphs')) =>
                            /\ CacheHas(colorCache', g.cacheKey[1])
                            /\ CacheGet(colorCache', g.cacheKey[1])
                                   = DrawOf(i).texture'
                     /\ (i = 1 /\ g.cacheKey # Undefined /\ ~g.created) =>
                            DrawOf(i).texture'
                                = CacheGet(colorCache, g.cacheKey[1])]_vars

\* Witness of C15: a text of one character twice, colored with a key the full
\* cache did not hold: the first glyph created the texture, the second found
\* it in the cache.
C15_Witness ==
    /\ op = "drawText"
    /\ text = <<"a", "a">>
    /\ Len(glyphs[1].before) = MAX_COLOR_CACHE_SIZE
    /\ glyphs[1].created
    /\ glyphs[2].hit
    /\ ~glyphs[2].created
    /\ draws[2].texture = draws[1].texture

\* The effective coloring mode of the call's options
EffectiveMode ==
    IF options.coloringMode = <<>> THEN "multiply"
    ELSE IF options.coloringMode = <<"custom">>
            /\ options.coloringFunction = <<>>
         THEN "multiply"
         ELSE options.coloringMode[1]

\* C16: a glyph is recolored only when options.color is supplied (and is not
\* the empty string); the key built for it is "character:color:mode" with the
\* effective mode, which is options.coloringMode, 'multiply' when omitted and
\* 'multiply' when it is 'custom' without a coloringFunction; the texture
\* created is painted in that mode, so 'custom' without a function uses the
\* entry of 'multiply'.
C16_EffectiveMode ==
    (op = "drawText") =>
        \A i \in 1..Len(glyphs) :
            LET g == glyphs[i]
            IN  /\ g.created => options.color # <<>>
                /\ (g.cacheKey # Undefined) =
                       (/\ HasTile(text[i])
                        /\ options.color # <<>>
                        /\ options.color # <<"">>)
                /\ g.cacheKey # Undefined =>
                       /\ g.cacheKey[1] = text[i] \o ":" \o options.color[1]
                                              \o ":" \o EffectiveMode
                       /\ DrawOf(i).texture.paint # Undefined
                       /\ DrawOf(i).texture.paint[1].mode = EffectiveMode
                       /\ DrawOf(i).texture.paint[1].color = options.color[1]
                /\ (g.drawn /\ g.cacheKey = Undefined) =>
                       DrawOf(i).texture.paint = Undefined

\* Witness of C16: a glyph drawn in mode 'custom' without a coloring function
\* that found its key in the cache and drew the texture painted by 'multiply'.
C16_Witness ==
    /\ op = "drawText"
    /\ options.coloringMode = <<"custom">>
    /\ options.coloringFunction = <<>>
    /\ glyphs # <<>>
    /\ glyphs[1].hit
    /\ glyphs[1].cacheKey = <<"a:red:multiply">>
    /\ draws[1].texture.paint[1].mode = "multiply"

\* The destination rectangles of a sequence of draw calls
Rects(calls) == [i \in 1..Len(calls) |-> Rect(calls[i])]

\* The draw calls of drawText of src/index.ts, which has no cache, for a text
\* and options
DrawsWithoutCache(t, opts) ==
    LET sz == measureText(textures, config, t, opts)
    IN  DrawLoop(textures, config, t, opts, BaseLineY(y, sz, opts), 1,
                 AlignX(x, sz, opts), <<>>).draws

\* C17: every call leaves the configuration and the atlas as they are;
\* measureText, and drawText without a color, leave the color cache as it is;
\* and whatever the cache holds from the calls before, measureText returns the
\* size measured from the font and its arguments alone, and drawText draws
\* the tiles of the text, in order, into the rectangles computed from the font
\* and its arguments alone.
C17_Frame ==
    [][/\ config' = config
       /\ textures' = textures
       /\ op' = "measureText" =>
              /\ colorCache' = colorCache
              /\ draws' = draws
              /\ size' = measureText(textures, config, text', options')
       /\ op' = "drawText" =>
              /\ ~HasColor(options') => colorCache' = colorCache
              /\ size' = measureText(textures, config, text', options')
              /\ \E plain \in {DrawsWithoutCache(text', options')} :
                     /\ Rects(draws') = Rects(plain)
                     /\ \A i \in 1..Len(draws') :
                            draws'[i].texture.tile = plain[i].texture]_vars

\* Witness of C17: a colored text of two characters with tiles of different
\* sizes, both drawn from textures that calls made before left in the cache.
C17_Witness ==
    /\ op = "drawText"
    /\ Len(draws) = 2
    /\ glyphs[1].hit
    /\ glyphs[2].hit
    /\ draws[1].dw # draws[2].dw
    /\ draws[1].dh # draws[2].dh

-----------------------------------------------------------------------------
(* The content processor *)

\* The content the type guard is specified to accept, as far as the processor
\* reads it: an object with a textureAtlasSize and characters that are
\* objects
WellFormed(value) ==
    /\ value.t = "object"
    /\ "textureAtlasSize" \in DOMAIN value.props
    /\ value.props.textureAtlasSize.t = "object"
    /\ {"x", "y"} \subseteq DOMAIN value.props.textureAtlasSize.props
    /\ "characters" \in DOMAIN value.props
    /\ value.props.characters.t = "object"
    /\ \A char \in DOMAIN value.props.characters.props :
           /\ char \in Chars
           /\ value.props.characters.props[char].t = "object"
           /\ "textureAtlasPosition"
                  \in DOMAIN value.props.characters.props[char].props

\* The image the call refers to is there: the map has an entry of that name
\* whose content is an image
ImageFound(map, name) == name \in DOMAIN map /\ map[name].content.t = "image"

\* C20: imageFontContentProcessor throws 'Invalid image font config' for a
\* malformed configuration and "Image '...' not found" for a missing image,
\* constructs no ImageFont then and leaves the content map exactly as it was;
\* otherwise it throws nothing and replaces content[data.name], and no other
\* entry, by an entry of status 'processed' that holds the font constructed.
C20_RejectBeforeConstruction ==
    [][op' = "imageFontContentProcessor" =>
          /\ thrown' # Undefined =>
                 /\ font' = Undefined
                 /\ content' = content
          /\ ~isImageFontConfigData(data'.content) =>
                 thrown' = <<"Invalid image font config">>
          /\ (isImageFontConfigData(data'.content)
              /\ ~ImageFound(content, imageName')) =>
                 thrown' = Some("Image '" \o imageName' \o "' not found")
          /\ ~WellFormed(data'.content) => thrown' # Undefined
          /\ thrown' = Undefined =>
                 /\ isImageFontConfigData(data'.content)
                 /\ ImageFound(content, imageName')
                 /\ font' # Undefined
                 /\ DOMAIN content' = DOMAIN content \cup {data'.name}
                 /\ \A n \in DOMAIN content \ {data'.name} :
                        content'[n] = content[n]
                 /\ content'[data'.name].status = "processed"
                 /\ content'[data'.name].content = font'[1]
                 /\ content'[data'.name].name = data'.name]_vars

\* Witness of C20: a call that threw for a malformed configuration on a
\* content map that holds the font of an earlier call, which is left there.
C20_Witness ==
    /\ op = "imageFontContentProcessor"
    /\ thrown = <<"Invalid image font config">>
    /\ font = Undefined
    /\ FontName \in DOMAIN content
    /\ content[FontName].status = "processed"
    /\ content[FontName].content.t = "font"
    /\ "a" \in DOMAIN content[FontName].content.textures

-----------------------------------------------------------------------------
(* The type guard *)

\* The value has the property
Has(v, key) == key \in DOMAIN v.props

\* The value is an object with numeric x and y
NumericVector(v) ==
    /\ v.t = "object"
    /\ Has(v, "x") /\ v.props.x.t = "number"
    /\ Has(v, "y") /\ v.props.y.t = "number"

\* The value is a character configuration: an object whose offset, if
\* present, has numeric x and y, whose width and height, if present, are
\* numbers, and which has a textureAtlasPosition with numeric x and y when
\* one is required
CharacterConforms(v, positionRequired) ==
    /\ v.t = "object"
    /\ positionRequired =>
           /\ Has(v, "textureAtlasPosition")
           /\ NumericVector(v.props.textureAtlasPosition)
    /\ Has(v, "offset") => NumericVector(v.props.offset)
    /\ Has(v, "width") => v.props.width.t = "number"
    /\ Has(v, "height") => v.props.height.t = "number"

\* The value is as C21 describes
Conforms(v) ==
    /\ v.t = "object"
    /\ Has(v, "textureAtlasSize")
    /\ NumericVector(v.props.textureAtlasSize)
    /\ Has(v, "characters")
    /\ v.props.characters.t = "object"
    /\ \A key \in DOMAIN v.props.characters.props :
           /\ Len(key) = 1
           /\ CharacterConforms(v.props.characters.props[key], TRUE)
    /\ Has(v, "offset") => NumericVector(v.props.offset)
    /\ Has(v, "scale") => v.props.scale.t = "number"
    /\ Has(v, "defaultCharacterConfig") =>
           CharacterConforms(v.props.defaultCharacterConfig, FALSE)

\* C21: isImageFontConfigData returns true exactly when the value is a
\* non-null object with a textureAtlasSize with numeric x and y and a
\* characters object whose keys are single characters and whose entries have
\* a textureAtlasPosition with numeric x and y, in which every offset present
\* has numeric x and y and every scale, width and height present is a number,
\* the defaultCharacterConfig needing no textureAtlasPosition; it returns
\* false for every other value.
C21_GuardExact ==
    (op = "isImageFontConfigData") => verdict = <<Conforms(guarded)>>

\* Witness of C21: a value accepted with a scale, a default configuration
\* without a textureAtlasPosition but with a height, and two characters.
C21_Witness ==
    /\ op = "isImageFontConfigData"
    /\ verdict = <<TRUE>>
    /\ Has(guarded, "scale")
    /\ Has(guarded, "defaultCharacterConfig")
    /\ ~Has(guarded.props.defaultCharacterConfig, "textureAtlasPosition")
    /\ Has(guarded.props.defaultCharacterConfig, "height")
    /\ DOMAIN guarded.props.characters.props = {"a", "b"}

-----------------------------------------------------------------------------
(* The recolored tiles *)

\* C22: every recolored tile that drawText draws, created by the call or
\* taken from the cache, is the tile of the character recolored with the
\* color, the effective mode and the coloring function of the call: in mode
\* 'custom' it is painted by the call's own coloring function.
C22_OwnRecoloring ==
    (op = "drawText") =>
        \A i \in 1..Len(glyphs) :
            glyphs[i].cacheKey # Undefined =>
                /\ DrawOf(i).texture.tile = text[i]
                /\ DrawOf(i).texture.paint
                       = Some([mode |-> EffectiveMode,
                               color |-> options.color[1],
                               by |-> IF EffectiveMode = "custom"
                                      THEN options.coloringFunction
                                      ELSE Undefined])

====
